---- MODULE Spec2Model ----
(***************************************************************************)
(* Black-Scholes pricer, Greeks and implied-volatility search of           *)
(* options.py, as a state machine over decimal fixed-point numbers.        *)
(*                                                                         *)
(* Number representation (IEEE doubles in the source):                     *)
(*   prices            integers in 1/PriceScale  (cents)                   *)
(*   rates, N(), exp() integers in 1/UnitScale                             *)
(*   d1, d2            integers in 1/DScale, or +inf / -inf / nan          *)
(*   ttm               integers in 1/TimeScale years                       *)
(*   vol, k            two-limb numbers [hi, lo] worth hi*Limb + lo in     *)
(*                     1/VolScale; a quotient below 1/VolScale is 0        *)
(*                     (underflow) and a sum beyond MaxHi limbs leaves the *)
(*                     larger operand unchanged (absorption)               *)
(***************************************************************************)
EXTENDS Integers, Sequences, FiniteSets, TLC

PriceScale == 10 * 10
UnitScale == 10 ^ 4
DScale == 10 ^ 3
VolScale == 10 ^ 3
TimeScale == 10 * 10
Limb == 10 ^ 8

\* |vol| at and beyond which N(d1), N(d2) are 1 and 0 to the last digit kept
VolSatUnits == 40
\* a sum whose high limb would leave -MaxHi..MaxHi is absorbed
MaxHi == 250000

VolSat == VolSatUnits * VolScale

---------------------------------------------------------------------------
(* Integer helpers *)

Abs(x) == IF x < 0 THEN -x ELSE x

Sgn(x) == IF x < 0 THEN -1 ELSE IF x > 0 THEN 1 ELSE 0

\* a / b truncated toward zero, b # 0
Quot[a \in Int, b \in Int] == Sgn(a) * Sgn(b) * (Abs(a) \div Abs(b))

Clamp(x, lo, hi) == IF x < lo THEN lo ELSE IF x > hi THEN hi ELSE x

---------------------------------------------------------------------------
(* Extended values: finite numbers, infinities, nan, None, raised error *)

Fin(x) == [kind |-> "num", v |-> x]
PInf == [kind |-> "pinf", v |-> 0]
NInf == [kind |-> "ninf", v |-> 0]
NaN == [kind |-> "nan", v |-> 0]
None == [kind |-> "none", v |-> 0]
Raised == [kind |-> "raise", v |-> 0]
Unset == [kind |-> "unset", v |-> 0]

IsNum(x) == x.kind = "num"

Ext == [kind : {"num", "pinf", "ninf", "nan", "none", "raise", "unset"}, v : Int]

Neg[x \in Ext] ==
    CASE x.kind = "num" -> Fin(-x.v)
      [] x.kind = "pinf" -> NInf
      [] x.kind = "ninf" -> PInf
      [] OTHER -> x

\* x + c for a finite c
AddFin[x \in Ext, c \in Int] == IF x.kind = "num" THEN Fin(x.v + c) ELSE x

---------------------------------------------------------------------------
(* Two-limb numbers for vol and k *)

Big(h, l) == [hi |-> h, lo |-> l]

BigNum == [hi : Int, lo : Int]

Norm(h, l) == Big(h + (IF l < 0 THEN -1 ELSE l \div Limb), IF l < 0 THEN l + Limb ELSE l % Limb)

IsZero(a) == a.hi = 0 /\ a.lo = 0

IsPositive(a) == a.hi > 0 \/ (a.hi = 0 /\ a.lo > 0)

Absorb(a, r) == IF r.hi > MaxHi \/ r.hi < -MaxHi THEN a ELSE r

\* a + b and a - b in double arithmetic
BigAdd(a, b) == Absorb(a, Norm(a.hi + b.hi, a.lo + b.lo))

BigSub(a, b) == Absorb(a, Norm(a.hi - b.hi, a.lo - b.lo))

\* a step left as it is
StepKeep(a) == a

\* k / 10 for k >= 0
Div10(a) == Big(a.hi \div 10, ((a.hi % 10) * Limb + a.lo) \div 10)

\* vol as an integer in 1/VolScale, saturated at +-VolSat
VolMilli[a \in BigNum] ==
    IF a.hi >= 1 THEN VolSat
    ELSE IF a.hi <= -2 THEN -VolSat
    ELSE Clamp(a.hi * Limb + a.lo, -VolSat, VolSat)

---------------------------------------------------------------------------
(* math, numpy and scipy primitives *)

\* floor(n * 10^digits / d) for n >= 0, d > 0, by long division
LongDiv[n \in Nat, d \in Nat, digits \in Nat] ==
    IF digits = 0 THEN n \div d
    ELSE (n \div d) * (10 ^ digits) + LongDiv[(n % d) * 10, d, digits - 1]

\* the integer square root of n, between lo and hi, by bisection
SqrtSearch[n \in Nat, lo \in Nat, hi \in Nat] ==
    IF lo >= hi THEN lo
    ELSE LET mid == (lo + hi + 1) \div 2
         IN  IF mid * mid <= n THEN SqrtSearch[n, mid, hi]
             ELSE SqrtSearch[n, lo, mid - 1]

\* math.sqrt(ttm) in 1/DScale, ttm > 0
SqrtT(ttm) == SqrtSearch[(ttm * DScale * DScale) \div TimeScale, 0, 10 * DScale]

\* math.exp(x), x and the result in 1/UnitScale (series to the fourth power)
Exp[x \in Int] ==
    LET t2 == Quot[x * x, 2 * UnitScale]
        t3 == Quot[t2 * x, 3 * UnitScale]
        t4 == Quot[t3 * x, 4 * UnitScale]
    IN  UnitScale + x + t2 + t3 + t4

\* math.exp(-rate * ttm)
Discount(rate, ttm) == Exp[Quot[-rate * ttm, TimeScale]]

\* ln(a / b) for a, b > 0 in 1/UnitScale: 2 * atanh((a - b) / (a + b))
LnSeries[a \in Nat, b \in Nat] ==
    LET y == Quot[(a - b) * UnitScale, a + b]
        y2 == Quot[y * y, UnitScale]
        t3 == Quot[y * y2, UnitScale]
        t5 == Quot[t3 * y2, UnitScale]
        t7 == Quot[t5 * y2, UnitScale]
    IN  2 * (y + Quot[t3, 3] + Quot[t5, 5] + Quot[t7, 7])

\* np.log(spot_px / strike_px): the Python division raises on a zero strike,
\* np.log gives -inf at 0 and nan below 0
LogRatio(spot, strike) ==
    IF strike = 0 THEN Raised
    ELSE IF spot = 0 THEN NInf
    ELSE IF Sgn(spot) # Sgn(strike) THEN NaN
    ELSE Fin(LnSeries[Abs(spot), Abs(strike)])

CdfTable ==
    << 5000, 5398, 5793, 6179, 6554, 6915, 7257, 7580,
       7881, 8159, 8413, 8643, 8849, 9032, 9192, 9332,
       9452, 9554, 9641, 9713, 9772, 9821, 9861, 9893,
       9918, 9938, 9953, 9965, 9974, 9981, 9987, 9990,
       9993, 9995, 9997, 9998, 9998, 9999, 9999, 10000,
       10000, 10000 >>

PdfTable ==
    << 3989, 3970, 3910, 3814, 3683, 3521, 3332, 3123,
       2897, 2661, 2420, 2179, 1942, 1714, 1497, 1295,
       1109, 940, 790, 656, 540, 440, 355, 283,
       224, 175, 136, 104, 79, 60, 44, 33,
       24, 17, 12, 9, 6, 4, 3, 2,
       1, 1 >>

TableStep == DScale \div 10

\* linear interpolation in a table of steps of 0.1, x >= 0 in 1/DScale
Interp(table, x, beyond) ==
    LET i == x \div TableStep
        f == x % TableStep
    IN  IF i + 2 > Len(table) THEN beyond
        ELSE table[i + 1] + Quot[(table[i + 2] - table[i + 1]) * f, TableStep]

\* scipy.stats.norm.cdf
NormCdf[x \in Ext] ==
    CASE x.kind = "pinf" -> Fin(UnitScale)
      [] x.kind = "ninf" -> Fin(0)
      [] x.kind = "num" ->
            IF x.v >= 0 THEN Fin(Interp(CdfTable, x.v, UnitScale))
            ELSE Fin(UnitScale - Interp(CdfTable, -x.v, UnitScale))
      [] OTHER -> NaN

\* scipy.stats.norm.pdf
NormPdf[x \in Ext] ==
    CASE x.kind = "pinf" -> Fin(0)
      [] x.kind = "ninf" -> Fin(0)
      [] x.kind = "num" -> Fin(Interp(PdfTable, Abs(x.v), 0))
      [] OTHER -> NaN

\* numpy float64 division num / den: no exception on a zero divisor.
\* num in 1/UnitScale, den in 1/(VolScale*DScale), result in 1/DScale,
\* saturated where the tables are flat.
NpDivide[num \in Ext, den \in Int] ==
    CASE num.kind = "nan" -> NaN
      [] num.kind = "pinf" -> IF den < 0 THEN NInf ELSE PInf
      [] num.kind = "ninf" -> IF den < 0 THEN PInf ELSE NInf
      [] OTHER ->
            IF den = 0
            THEN (IF num.v > 0 THEN PInf ELSE IF num.v < 0 THEN NInf ELSE NaN)
            ELSE IF Abs(num.v) >= Abs(den)
            THEN Fin(Sgn(num.v) * Sgn(den) * 100 * DScale)
            ELSE Fin(Sgn(num.v) * Sgn(den) * LongDiv[Abs(num.v), Abs(den), 5])

---------------------------------------------------------------------------
(* options.py: the closed formulas *)

\* a test that lets ttm = 0 through
ExpiredStrict(ttm) == ttm < 0

\* the `ttm <= 0` test that opens the pricer and every Greek
Expired(ttm) == ttm <= 0

\* 0.5 * math.pow(vol, 2) in 1/UnitScale, vol in 1/VolScale
HalfSquare[v \in Int] == Quot[v * v, 2 * ((VolScale * VolScale) \div UnitScale)]

\* vol * math.sqrt(ttm) in 1/(VolScale*DScale)
VolSqrtT(ttm, vol) == VolMilli[vol] * SqrtT(ttm)

\* d1 = (np.log(spot / strike) + ttm * (0.5 * vol^2 + rf - div)) / (vol * sqrt(ttm))
D1(spot_px, strike_px, rf_rate, div_yield, ttm, vol) ==
    LET halfVar == HalfSquare[VolMilli[vol]]
        drift == Quot[ttm * (halfVar + rf_rate - div_yield), TimeScale]
        lg == LogRatio(spot_px, strike_px)
    IN  IF lg = Raised THEN Raised
        ELSE NpDivide[AddFin[lg, drift], VolSqrtT(ttm, vol)]

\* d2 = d1 - vol * math.sqrt(ttm)
D2(d1, ttm, vol) == AddFin[d1, -Quot[VolSqrtT(ttm, vol), VolScale]]

\* a * n for a price a and a probability n that may be nan
Weigh[a \in Int, n \in Ext] == IF IsNum(n) THEN Fin(Quot[a * n.v, UnitScale]) ELSE NaN

\* a - b on values that may be nan
Minus[a \in Ext, b \in Ext] == IF IsNum(a) /\ IsNum(b) THEN Fin(a.v - b.v) ELSE NaN

\* math.exp(-div_yield * ttm) * spot_px, in 1/PriceScale
DiscSpot(spot_px, div_yield, ttm) ==
    Quot[Discount(div_yield, ttm) * spot_px * PriceScale, UnitScale]

\* math.exp(-rf_rate * ttm) * strike_px, in 1/PriceScale
DiscStrike(strike_px, rf_rate, ttm) ==
    Quot[Discount(rf_rate, ttm) * strike_px * PriceScale, UnitScale]

\* lines 30-33; falling off the if/elif returns None
PriceFormula(spot_px, strike_px, rf_rate, div_yield, ttm, vol, opt_type, d1) ==
    LET d2 == D2(d1, ttm, vol)
        s == DiscSpot(spot_px, div_yield, ttm)
        x == DiscStrike(strike_px, rf_rate, ttm)
    IN  IF opt_type = "call"
        THEN Minus[Weigh[s, NormCdf[d1]], Weigh[x, NormCdf[d2]]]
        ELSE IF opt_type = "put"
        THEN Minus[Weigh[x, NormCdf[Neg[d2]]], Weigh[s, NormCdf[Neg[d1]]]]
        ELSE None

black_price(spot_px, strike_px, rf_rate, div_yield, ttm, vol, opt_type) ==
    IF Expired(ttm) THEN Fin(0)
    ELSE LET d1 == D1(spot_px, strike_px, rf_rate, div_yield, ttm, vol)
         IN  IF d1 = Raised THEN Raised
             ELSE PriceFormula(spot_px, strike_px, rf_rate, div_yield, ttm,
                               vol, opt_type, d1)

\* lines 57-60, in 1/UnitScale
DeltaFormula(rf_rate, div_yield, ttm, opt_type, d1) ==
    IF opt_type = "call"
    THEN Weigh[Discount(div_yield, ttm), NormCdf[d1]]
    ELSE IF opt_type = "put"
    THEN Neg[Weigh[Discount(rf_rate, ttm), NormCdf[Neg[d1]]]]
    ELSE None

black_delta(spot_px, strike_px, rf_rate, div_yield, ttm, vol, opt_type) ==
    IF Expired(ttm) THEN Fin(0)
    ELSE LET d1 == D1(spot_px, strike_px, rf_rate, div_yield, ttm, vol)
         IN  IF d1 = Raised THEN Raised
             ELSE DeltaFormula(rf_rate, div_yield, ttm, opt_type, d1)

\* line 82, in 1/UnitScale: numpy division, nan on 0 / 0
GammaFormula(spot_px, div_yield, ttm, vol, d1) ==
    LET e == Weigh[Discount(div_yield, ttm), NormPdf[d1]]
        den == spot_px * Quot[VolSqrtT(ttm, vol), 10]
    IN  IF ~IsNum(e) THEN NaN
        ELSE IF den = 0
        THEN (IF e.v = 0 THEN NaN ELSE IF e.v > 0 THEN PInf ELSE NInf)
        ELSE Fin(Quot[e.v * 10 ^ 5, den])

black_gamma(spot_px, strike_px, rf_rate, div_yield, ttm, vol) ==
    IF Expired(ttm) THEN Fin(0)
    ELSE LET d1 == D1(spot_px, strike_px, rf_rate, div_yield, ttm, vol)
         IN  IF d1 = Raised THEN Raised
             ELSE GammaFormula(spot_px, div_yield, ttm, vol, d1)

VegaPercent == 100

\* line 104, in 1/UnitScale
VegaFormula(spot_px, div_yield, ttm, d1) ==
    LET e == Weigh[Discount(div_yield, ttm), NormPdf[d1]]
    IN  IF ~IsNum(e) THEN NaN
        ELSE Fin(Quot[spot_px * e.v * SqrtT(ttm), DScale * VegaPercent])

black_vega(spot_px, strike_px, rf_rate, div_yield, ttm, vol) ==
    IF Expired(ttm) THEN Fin(0)
    ELSE LET d1 == D1(spot_px, strike_px, rf_rate, div_yield, ttm, vol)
         IN  IF d1 = Raised THEN Raised
             ELSE VegaFormula(spot_px, div_yield, ttm, d1)

DaysPerYear == 365

\* lines 129-132, in 1/UnitScale per day
ThetaFormula(spot_px, strike_px, rf_rate, div_yield, ttm, vol, opt_type, d1) ==
    LET d2 == D2(d1, ttm, vol)
        sgn == IF opt_type = "call" THEN 1 ELSE -1
        sd1 == IF opt_type = "call" THEN d1 ELSE Neg[d1]
        sd2 == IF opt_type = "call" THEN d2 ELSE Neg[d2]
        e == Weigh[Discount(div_yield, ttm), NormPdf[sd1]]
        carry == Weigh[DiscSpot(spot_px, div_yield, ttm), NormCdf[sd1]]
        fund == Weigh[DiscStrike(strike_px, rf_rate, ttm), NormCdf[sd2]]
    IN  IF opt_type \notin {"call", "put"} THEN None
        ELSE IF ~(IsNum(e) /\ IsNum(carry) /\ IsNum(fund)) THEN NaN
        ELSE Fin(Quot[- Quot[spot_px * e.v, 2 * SqrtT(ttm)] * VolMilli[vol]
                      + sgn * Quot[div_yield * carry.v, PriceScale]
                      - sgn * Quot[rf_rate * fund.v, PriceScale],
                      DaysPerYear])

black_theta(spot_px, strike_px, rf_rate, div_yield, ttm, vol, opt_type) ==
    IF Expired(ttm) THEN Fin(0)
    ELSE LET d1 == D1(spot_px, strike_px, rf_rate, div_yield, ttm, vol)
         IN  IF d1 = Raised THEN Raised
             ELSE ThetaFormula(spot_px, strike_px, rf_rate, div_yield, ttm,
                               vol, opt_type, d1)

---------------------------------------------------------------------------
(* The calls: one formula call or one implied_vol search per behaviour *)

VARIABLES fn, spot_px, strike_px, rf_rate, div_yield, ttm, vol, opt_type,
          opt_price, k, pc, d1, ret

vars == << fn, spot_px, strike_px, rf_rate, div_yield, ttm, vol, opt_type,
           opt_price, k, pc, d1, ret >>

args == << fn, spot_px, strike_px, rf_rate, div_yield, ttm, opt_type, opt_price >>

\* vol given in 1/VolScale
V(milli) == Norm(0, milli)

FormulaFns == {"black_price", "black_delta", "black_gamma", "black_vega", "black_theta"}
TypedFns == {"black_price", "black_delta", "black_theta"}

\* the inputs the calls are drawn from
Spots == {-100, 0, 90, 110}
Strikes == {0, 100}
Rates == {0, 500}
Times == {-25, 0, 25, 100}
Vols == {V(-1000), V(0), V(50), V(1000)}
OptTypes == {"call", "put", "straddle"}
SolverSpots == {90, 100, 110}
SolverStrikes == {100}
ObservedPrices == {-500, 500, 950, 20000}
TargetVols == {V(50), V(200), V(2000)}

\* line 155: the tolerance 1.0
Tolerance == 1 * PriceScale

\* line 153: vol = 1
InitialVol == V(1 * VolScale)

\* line 154: k = 10000000000 = 10^10; one limb is worth Limb / VolScale = 10^5
InitialStep == Big(10 ^ (10 - 5), 0)

NoStep == Big(0, 0)

\* prices of the search's inputs at the target volatilities
TargetPrices(s, x, r, q, t, ty) ==
    IF t > 0 /\ ty \in {"call", "put"}
    THEN {black_price(s, x, r, q, t, v, ty).v : v \in TargetVols}
    ELSE {}

InitFormula ==
    /\ fn \in FormulaFns
    /\ spot_px \in Spots
    /\ strike_px \in Strikes
    /\ rf_rate \in Rates
    /\ div_yield \in Rates
    /\ ttm \in Times
    /\ vol \in Vols
    /\ opt_type \in (IF fn \in TypedFns THEN OptTypes ELSE {"call"})
    /\ opt_price = 0
    /\ k = NoStep
    /\ pc = "entry"
    /\ d1 = Unset
    /\ ret = Unset

InitSolver ==
    /\ fn = "implied_vol"
    /\ spot_px \in SolverSpots
    /\ strike_px \in SolverStrikes
    /\ rf_rate \in Rates
    /\ div_yield \in Rates
    /\ ttm \in Times
    /\ opt_type \in OptTypes
    /\ opt_price \in ObservedPrices \cup
                     TargetPrices(spot_px, strike_px, rf_rate, div_yield, ttm, opt_type)
    /\ vol = InitialVol
    /\ k = InitialStep
    /\ pc = "while"
    /\ d1 = Unset
    /\ ret = Unset

Init == InitFormula \/ InitSolver

(* black_price, black_delta, black_gamma, black_vega, black_theta *)

\* `if ttm <= 0: return 0`
CheckExpiry ==
    /\ fn \in FormulaFns
    /\ pc = "entry"
    /\ IF Expired(ttm)
       THEN pc' = "done" /\ ret' = Fin(0)
       ELSE pc' = "compute" /\ ret' = ret
    /\ UNCHANGED << args, vol, k, d1 >>

\* the assignment of d1 (and d2): a zero strike raises ZeroDivisionError
ComputeD1 ==
    /\ fn \in FormulaFns
    /\ pc = "compute"
    /\ LET d == D1(spot_px, strike_px, rf_rate, div_yield, ttm, vol)
       IN  IF d = Raised
           THEN pc' = "raised" /\ ret' = Raised /\ d1' = d1
           ELSE pc' = "formula" /\ ret' = ret /\ d1' = d
    /\ UNCHANGED << args, vol, k >>

ReturnPrice ==
    /\ fn = "black_price"
    /\ pc = "formula"
    /\ ret' = PriceFormula(spot_px, strike_px, rf_rate, div_yield, ttm, vol, opt_type, d1)
    /\ pc' = "done"
    /\ UNCHANGED << args, vol, k, d1 >>

ReturnDelta ==
    /\ fn = "black_delta"
    /\ pc = "formula"
    /\ ret' = DeltaFormula(rf_rate, div_yield, ttm, opt_type, d1)
    /\ pc' = "done"
    /\ UNCHANGED << args, vol, k, d1 >>

ReturnGamma ==
    /\ fn = "black_gamma"
    /\ pc = "formula"
    /\ ret' = GammaFormula(spot_px, div_yield, ttm, vol, d1)
    /\ pc' = "done"
    /\ UNCHANGED << args, vol, k, d1 >>

ReturnVega ==
    /\ fn = "black_vega"
    /\ pc = "formula"
    /\ ret' = VegaFormula(spot_px, div_yield, ttm, d1)
    /\ pc' = "done"
    /\ UNCHANGED << args, vol, k, d1 >>

ReturnTheta ==
    /\ fn = "black_theta"
    /\ pc = "formula"
    /\ ret' = ThetaFormula(spot_px, strike_px, rf_rate, div_yield, ttm, vol, opt_type, d1)
    /\ pc' = "done"
    /\ UNCHANGED << args, vol, k, d1 >>

(* implied_vol *)

\* black_price at a candidate volatility, as implied_vol calls it
PriceAt(v) == black_price(spot_px, strike_px, rf_rate, div_yield, ttm, v, opt_type)

\* Python comparisons: False whenever a side is nan
Gt(p, o) == IsNum(p) /\ p.v > o
Lt(p, o) == IsNum(p) /\ p.v < o

\* abs(price - opt_price) > 1.0
OffTarget(p, o) == IsNum(p) /\ Abs(p.v - o) > Tolerance

\* lines 155-157 and 167-168: the while test and the choice of direction;
\* None - opt_price raises TypeError, and leaving the loop returns vol
WhileTest ==
    /\ fn = "implied_vol"
    /\ pc = "while"
    /\ LET p == PriceAt(vol)
       IN  pc' = IF p = None \/ p = Raised THEN "raised"
                 ELSE IF ~OffTarget(p, opt_price) THEN "done"
                 ELSE IF Gt(p, opt_price) THEN "down"
                 ELSE "up"
    /\ UNCHANGED << args, vol, k, d1, ret >>

\* the candidate both inner loops price: vol - k (lines 160 and 171)
Candidate == BigSub(vol, k)

\* line 161: new_potential_black_price < opt_price
TooLow == Lt(PriceAt(Candidate), opt_price)

\* line 172: new_potential_black_price > opt_price
TooHigh == Gt(PriceAt(Candidate), opt_price)

\* lines 157-166, one turn of the inner loop when the guess prices too high:
\* k = k / 10 and again, or proceed and vol -= k
DownStep ==
    /\ fn = "implied_vol"
    /\ pc = "down"
    /\ IF TooLow
       THEN k' = Div10(k) /\ vol' = vol /\ pc' = pc
       ELSE k' = k /\ vol' = BigSub(vol, k) /\ pc' = "while"
    /\ UNCHANGED << args, d1, ret >>

\* lines 168-177, one turn of the inner loop when the guess prices too low:
\* k = k / 10 and again, or proceed and vol += k
UpStep ==
    /\ fn = "implied_vol"
    /\ pc = "up"
    /\ IF TooHigh
       THEN k' = Div10(k) /\ vol' = vol /\ pc' = pc
       ELSE k' = k /\ vol' = BigAdd(vol, k) /\ pc' = "while"
    /\ UNCHANGED << args, d1, ret >>

Next ==
    \/ CheckExpiry
    \/ ComputeD1
    \/ ReturnPrice
    \/ ReturnDelta
    \/ ReturnGamma
    \/ ReturnVega
    \/ ReturnTheta
    \/ WhileTest
    \/ DownStep
    \/ UpStep

Spec == Init /\ [][Next]_vars

\* the implied_vol calls alone
SolverNext ==
    \/ WhileTest
    \/ DownStep
    \/ UpStep

\* a call runs on: the interpreter always takes the next step
FairSolver == InitSolver /\ [][SolverNext]_vars /\ WF_vars(SolverNext)

---------------------------------------------------------------------------
(* The claims *)

Solving == fn = "implied_vol"

Returned == Solving /\ pc = "done"

KnownType == opt_type \in {"call", "put"}

\* the least price the formula takes over vol > 0 (the intrinsic value)
Floor ==
    LET s == DiscSpot(spot_px, div_yield, ttm)
        x == DiscStrike(strike_px, rf_rate, ttm)
        f == IF opt_type = "call" THEN s - x ELSE x - s
    IN  IF f > 0 THEN f ELSE 0

\* opt_price lies below every price the formula takes, by more than the tolerance
BelowFloor ==
    /\ Solving
    /\ KnownType
    /\ ttm > 0
    /\ opt_price < Floor - Tolerance

InRange ==
    /\ Solving
    /\ opt_price \in TargetPrices(spot_px, strike_px, rf_rate, div_yield, ttm, opt_type)

BigLeq(a, b) == a.hi < b.hi \/ (a.hi = b.hi /\ a.lo <= b.lo)

\* C1: with ttm <= 0 every formula call (any inputs, volatility 0 and any
\* option type included) returns exactly 0 straight from the entry test: d1 is
\* never computed, so nothing is divided by vol * sqrt(ttm).
C1_ExpiredReturnsZero ==
    (fn \in FormulaFns /\ ttm <= 0 /\ pc # "entry")
        => (pc = "done" /\ ret = Fin(0) /\ d1 = Unset)

C1_Witness ==
    /\ fn = "black_theta" /\ ttm <= 0 /\ IsZero(vol) /\ opt_type = "straddle"
    /\ pc = "done" /\ ret = Fin(0)

\* C2: whenever implied_vol returns vol, black_price at vol is within the
\* tolerance 1.0 of opt_price.
C2_ReturnedVolReprices ==
    Returned =>
        LET p == PriceAt(vol)
        IN  IsNum(p) /\ Abs(p.v - opt_price) <= Tolerance

\* C3: with opt_price out of the reach of the formula (here: below its floor
\* by more than the tolerance), implied_vol comes to an end; it never loops
\* forever.
C3_OutOfRangeEnds == BelowFloor => <>(pc \in {"done", "raised", "failed"})

C5_UnknownTypeRaises ==
    (fn \in TypedFns /\ ~KnownType /\ ttm > 0
        /\ spot_px > 0 /\ strike_px > 0 /\ IsPositive(vol)) => pc # "done"

\* C6: a formula call with ttm > 0 and a non-positive spot, strike or
\* volatility is rejected before d1 is computed and never returns.
C6_NonPositiveRejected ==
    (fn \in FormulaFns /\ ttm > 0
        /\ (spot_px <= 0 \/ strike_px <= 0 \/ ~IsPositive(vol)))
        => (pc # "done" /\ d1 = Unset)

\* C7: every volatility implied_vol returns is strictly positive.
C7_ReturnedVolPositive == Returned => IsPositive(vol)

\* C8: for valid inputs with ttm > 0 the call delta lies in
\* [0, exp(-div_yield*ttm)], the put delta lies in [-exp(-div_yield*ttm), 0],
\* and the put delta is -exp(-div_yield*ttm) * N(-d1).
C8_DeltaBounds ==
    (fn = "black_delta" /\ pc = "done" /\ ttm > 0 /\ KnownType
        /\ spot_px > 0 /\ strike_px > 0 /\ IsPositive(vol))
        => /\ IsNum(ret)
           /\ opt_type = "call" => (0 <= ret.v /\ ret.v <= Discount(div_yield, ttm))
           /\ opt_type = "put" =>
                /\ - Discount(div_yield, ttm) <= ret.v /\ ret.v <= 0
                /\ ret = Neg[Weigh[Discount(div_yield, ttm), NormCdf[Neg[d1]]]]

\* C9: no committed move overshoots: after a move up the new guess does not
\* price above opt_price, after a move down it does not price below it.
C9_NoOvershoot ==
    [][/\ (Solving /\ pc = "up" /\ pc' = "while") => ~Gt(PriceAt(vol'), opt_price)
       /\ (Solving /\ pc = "down" /\ pc' = "while") => ~Lt(PriceAt(vol'), opt_price)]_vars

\* C10: within a call of implied_vol, k never grows, changes only in a retry
\* that leaves vol as it is, and stays strictly positive.
C10_StepShrinksPositive ==
    [][Solving =>
        /\ BigLeq(k', k)
        /\ (k' # k => (vol' = vol /\ pc' = pc))
        /\ IsPositive(k')]_vars

====
